---- MODULE Spec2Model ----
(***************************************************************************)
(* Indexed block access and chronological line decoding of k2s/hl          *)
(* (src/src/input.rs).  The specifications share the variables:            *)
(*   SpecDecode  BlockLines::next over one materialized block              *)
(*   SpecSort    Blocks::sorted / next / nth / count over one index        *)
(*   SpecMat     BlockLines::new run by concurrent workers                 *)
(*   SpecMatFair SpecMat under fair scheduling                             *)
(*   SpecFrame   one thread iterating, materializing and decoding          *)
(*   SpecIndex   InputHolder::index / IndexedInput::open_stream /          *)
(*               IndexedInput::open_sequential                             *)
(*   SpecConcat  ConcatReader::read                                        *)
(* Offsets are 0-based as in the source; sequences are 1-based, so the     *)
(* element at offset i of s is s[i + 1].                                   *)
(***************************************************************************)
EXTENDS Integers, Sequences, FiniteSets, TLC

\* ------------------------------------------------------------------ bounds
\* longest block buffer of SpecDecode, in bytes
MaxBuf == 5
\* bits of one bitmap word: k of BlockLines::next (input.rs:331), 64 in the
\* build (the bitmap is a Vec<u64> of crate::index), scaled down here
WordBits == 2
\* calls of BlockLines::next made after the decoder is exhausted
MaxExtraCalls == 2
\* blocks of the index of SpecSort
MaxBlocks == 3
\* timestamps run from 0 to MaxTs
MaxTs == 1
\* worker threads of SpecMat
MatWorkers == 2
\* usize::MAX of the target, scaled down: the bound of try_into
MaxUsize == 3
\* longest source of SpecIndex, in bytes
MaxSrc == 3
\* most bytes one read of the indexer asks for
MaxChunk == 2
\* block reads made on the IndexedInput once it is built
MaxReadBack == 2
\* items of the iterator a ConcatReader is built over
MaxInputs == 2
\* longest source of a ConcatReader, in bytes
MaxData == 2

\* b'\n' (input.rs:345)
NL == 10
\* the bytes a buffer is drawn from: the newline and one other byte
Bytes == {NL, 97}

\* --------------------------------------------------------------- variables
VARIABLES
    \* SpecDecode: the block (SourceBlock of crate::index) and BlockLines
    buf,         \* BlockLines.buf: the materialized block buffer
    chronology,  \* SourceBlock.chronology: [bitmap, offsets, jumps]
    stat,        \* SourceBlock.stat: [lines_valid, lines_invalid]
    total,       \* BlockLines.total
    current,     \* BlockLines.current
    byte,        \* BlockLines.byte
    jump,        \* BlockLines.jump
    lines,       \* the BlockLine ranges produced so far, <<start, end>> each
    ret,         \* what the last call of next returned: "Some", "None", "panic"
    extra,       \* calls of next made with current >= total
    jlog,        \* per produced line: what the call did with the jump cursor
    order,       \* the chronological order the index was built for
    \* SpecSort: one IndexedInput's index and a Blocks sequence over it
    blocks,      \* index.source().blocks: each block's stat.ts_min_max
    indexes,     \* Blocks.indexes: the block indexes still to yield
    yielded,     \* the Block.index of every Block handle yielded so far
    sortIn,      \* the indexes the last call of sorted collected
    sortAt,      \* Len(yielded) at the last call of sorted, -1 before it
    given,       \* the indexes Blocks::new was handed
    blast,       \* the last call made on the Blocks sequence, with what it returned
    \* SpecMat: workers running BlockLines::new over shared IndexedInputs
    file,        \* per stream: the bytes of the underlying file
    pos,         \* per stream: the position of the seekable stream
    lock,        \* per stream: the worker holding the Mutex, 0 when free
    wpc,         \* per worker: where it is in BlockLines::new
    wblk,        \* per worker: its Block handle, <<stream, block index>>
    wbuf,        \* per worker: buf
    wread,       \* per worker: the bytes its read_fill took from the stream
    wres,        \* per worker: what BlockLines::new returned
    werr,        \* per worker: the message of the error it returned, in parts
    \* SpecIndex: one InputHolder and its call of index
    iref,        \* InputHolder.reference: [kind, path]
    iholder,     \* InputHolder.stream: "Some" or "None"
    seekable,    \* whether seeking the file's handle succeeds
    ipc,         \* where the call of index is
    ievents,     \* the calls made on the file system, the stream, the indexer
    source,      \* the bytes the source (the file, standard input) delivers
    srcPos,      \* how many bytes the source has delivered
    srcEof,      \* whether a read of the source has met its end
    replay,      \* the bytes the ReplayBufCreator has accumulated
    ires,        \* what index returned
    ispos,       \* the position of IndexedInput.stream
    iback,       \* the range last read from IndexedInput.stream, and its bytes
    \* Block accessors
    seen,        \* what offset, size and lines_valid last returned, and for which block
    \* SpecConcat: one ConcatReader
    csrcs,       \* the items the iterator was built over
    citer,       \* ConcatReader.iter: the items still to come
    citem,       \* ConcatReader.item: the Input being read, <<>> for None
    cout,        \* the bytes the calls of read have delivered
    clast,       \* the last call of read: what it was asked, what it returned
    cerr         \* whether a call of read has returned an error

decVars == <<buf, chronology, stat, total, current, byte, jump, lines, ret,
             extra, jlog, order>>

sortVars == <<blocks, indexes, yielded, sortIn, sortAt, given, blast>>

matVars == <<file, pos, lock, wpc, wblk, wbuf, wread, wres, werr>>

idxVars == <<iref, iholder, seekable, ipc, ievents, source, srcPos, srcEof,
             replay, ires, ispos, iback>>

blkVars == <<seen>>

catVars == <<csrcs, citer, citem, cout, clast, cerr>>

vars == <<decVars, sortVars, matVars, idxVars, blkVars, catVars>>

\* ----------------------------------------------------------------- helpers
At(s, i) == s[i + 1]

Pow2(m) == 2 ^ m

\* s[from..] of a 0-based slice: the bytes from offset `from` to the end
SliceFrom(s, from) == SubSeq(s, from + 1, Len(s))

\* s.iter().position(|&x| x == b'\n').map_or(s.len(), |i| i + 1)
LineLen(s) ==
    IF \E i \in 1..Len(s) : s[i] = NL
    THEN CHOOSE i \in 1..Len(s) : s[i] = NL /\ \A j \in 1..(i - 1) : s[j] # NL
    ELSE Len(s)

\* faulty variant: the end test off by one
ExhaustedOffByOne(cur, tot) == cur > tot

\* if self.current >= self.total { return None; }
Exhausted(cur, tot) == cur >= tot

\* faulty variant: no line starts a window: offsets is never consulted
WindowStartNever(m) == FALSE

\* faulty variant: every line taken for the first of a window
WindowStartEvery(m) == TRUE

\* if m == 0: the first line of a window
WindowStart(m) == m = 0

\* bitmap[n] & (1 << m) != 0
BitSet(word, m) == (word \div Pow2(m)) % 2 = 1

\* faulty variant: the jump cursor left where it was
JumpNotAdvanced(j) == j

\* self.jump += 1
JumpAdvance(j) == j + 1

\* faulty variant: the scan offset moved past the line less its last byte
ByteAdvanceShort(b, l) == IF l > 0 THEN b + l - 1 ELSE b

\* self.byte += l
ByteAdvance(b, l) == b + l

\* faulty variant: the range stops one byte short of the line's end
LineRangeShort(offset, l) == <<offset, IF l > 0 THEN offset + l - 1 ELSE offset>>

\* offset..offset + l
LineRange(offset, l) == <<offset, offset + l>>

\* ------------------------------------------------- the index contract
\* The block index is built by crate::index (Indexer), which is not part of
\* the sources modelled here; the tables below are the ones the index
\* contract allows: the block's logical lines in a chronological order, the
\* lines that do not follow their predecessor marked as exceptions.

\* the logical lines of b from offset `from`, as <<start, end>> ranges in byte
\* order: each ends after the next newline, the last at the buffer's end
RECURSIVE SplitFrom(_, _)
SplitFrom(b, from) ==
    IF from >= Len(b) THEN <<>>
    ELSE LET l == LineLen(SliceFrom(b, from))
         IN  <<<<from, from + l>>>> \o SplitFrom(b, from + l)

NaiveSplit(b) == SplitFrom(b, 0)

\* chronological orders of n lines: p[i] is the line (in byte order, from 1)
\* that is i-th in time
Orders(n) == {p \in [1..n -> 1..n] : \A i, j \in 1..n : i # j => p[i] # p[j]}

Identity(n) == [i \in 1..n |-> i]

\* line i of the order directly follows line i - 1 in the buffer
Follows(p, i) == i > 1 /\ p[i] = p[i - 1] + 1

\* whether line i of the order is recorded as an exception. "window": only
\* where the decoder needs it (a window's first line takes its offset from
\* offsets); "carry": every line that does not follow its predecessor, the
\* first line of a later window included
IsException(p, i, exc) ==
    IF exc = "window" THEN (i - 1) % WordBits # 0 /\ ~Follows(p, i)
    ELSE i > 1 /\ ~Follows(p, i)

RECURSIVE WordOf(_, _, _, _)
WordOf(p, exc, w, m) ==
    IF m >= WordBits THEN 0
    ELSE LET i == w * WordBits + m + 1
         IN  (IF i <= Len(p) /\ IsException(p, i, exc) THEN Pow2(m) ELSE 0)
             + WordOf(p, exc, w, m + 1)

RECURSIVE JumpsOf(_, _, _, _)
JumpsOf(ranges, p, exc, i) ==
    IF i > Len(p) THEN <<>>
    ELSE (IF IsException(p, i, exc) THEN <<ranges[p[i]][1]>> ELSE <<>>)
         \o JumpsOf(ranges, p, exc, i + 1)

\* the chronology of buffer b for order p: one bitmap word and one offsets
\* entry per window of WordBits lines; a block already in order may carry
\* no table at all (dense = FALSE)
Encode(b, p, exc, dense) ==
    LET ranges == NaiveSplit(b)
        n      == Len(ranges)
        words  == (n + WordBits - 1) \div WordBits
    IN  IF p = Identity(n) /\ ~dense
        THEN [bitmap |-> <<>>, offsets |-> <<>>, jumps |-> <<>>]
        ELSE [bitmap  |-> [w \in 1..words |-> WordOf(p, exc, w - 1, 0)],
              offsets |-> [w \in 1..words |->
                              [bytes |-> ranges[p[(w - 1) * WordBits + 1]][1],
                               jumps |-> Cardinality({i \in 1..((w - 1) * WordBits) :
                                                        IsException(p, i, exc)})]],
              jumps   |-> JumpsOf(ranges, p, exc, 1)]

Buffers == UNION {[1..n -> Bytes] : n \in 0..MaxBuf}

\* ------------------------------------------------------------- SpecDecode
\* The state BlockLines::new leaves: the buffer filled, total the sum of the
\* two line counts, the three cursors zero.
DecodeInit ==
    /\ buf \in Buffers
    /\ \E p \in Orders(Len(NaiveSplit(buf))), exc \in {"window", "carry"},
          dense \in BOOLEAN :
          /\ order = p
          /\ chronology = Encode(buf, p, exc, dense)
    /\ \E inv \in 0..Len(NaiveSplit(buf)) :
          stat = [lines_valid |-> Len(NaiveSplit(buf)) - inv, lines_invalid |-> inv]
    /\ total = stat.lines_valid + stat.lines_invalid
    /\ current = 0
    /\ byte = 0
    /\ jump = 0
    /\ lines = <<>>
    /\ ret = "new"
    /\ extra = 0
    /\ jlog = <<>>

\* BlockLines::next
BlockLinesNext ==
    /\ ret \in {"new", "Some", "None"}
    /\ IF Exhausted(current, total)
       THEN /\ extra < MaxExtraCalls
            /\ ret' = "None"
            /\ extra' = extra + 1
            /\ UNCHANGED <<buf, chronology, stat, total, current, byte, jump,
                           lines, jlog, order>>
       ELSE LET bitmap   == chronology.bitmap
                nonEmpty == Len(bitmap) # 0
                n        == current \div WordBits
                m        == current % WordBits
                reset    == nonEmpty /\ WindowStart(m)
                oobN     == nonEmpty /\ (n >= Len(bitmap)
                                         \/ (reset /\ n >= Len(chronology.offsets)))
                byte1    == IF reset /\ ~oobN THEN At(chronology.offsets, n).bytes ELSE byte
                jump1    == IF reset /\ ~oobN THEN At(chronology.offsets, n).jumps ELSE jump
                bit      == nonEmpty /\ ~oobN /\ BitSet(At(bitmap, n), m)
                oobJ     == bit /\ jump1 >= Len(chronology.jumps)
                byte2    == IF bit /\ ~oobJ THEN At(chronology.jumps, jump1) ELSE byte1
                jump2    == IF bit THEN JumpAdvance(jump1) ELSE jump1
                oobB     == byte2 > Len(buf)
            IN  IF oobN \/ oobJ \/ oobB
                THEN /\ ret' = "panic"
                     /\ UNCHANGED <<buf, chronology, stat, total, current, byte,
                                    jump, lines, extra, jlog, order>>
                ELSE LET l == LineLen(SliceFrom(buf, byte2))
                     IN  /\ byte' = ByteAdvance(byte2, l)
                         /\ jump' = jump2
                         /\ current' = current + 1
                         /\ lines' = Append(lines, LineRange(byte2, l))
                         /\ jlog' = Append(jlog, [line |-> current, bit |-> bit,
                                                  reset |-> reset, enter |-> jump,
                                                  before |-> jump1,
                                                  benter |-> byte,
                                                  bbefore |-> byte1,
                                                  read |-> IF bit THEN jump1 ELSE -1,
                                                  after |-> jump2])
                         /\ ret' = "Some"
                         /\ UNCHANGED <<buf, chronology, stat, total, extra, order>>

\* the variables of a specification that is not the one running
DecodeIdle ==
    /\ buf = <<>>
    /\ chronology = [bitmap |-> <<>>, offsets |-> <<>>, jumps |-> <<>>]
    /\ stat = [lines_valid |-> 0, lines_invalid |-> 0]
    /\ total = 0
    /\ current = 0
    /\ byte = 0
    /\ jump = 0
    /\ lines = <<>>
    /\ ret = "idle"
    /\ extra = 0
    /\ jlog = <<>>
    /\ order = <<>>

SortIdle ==
    /\ blocks = <<>>
    /\ indexes = <<>>
    /\ yielded = <<>>
    /\ sortIn = <<>>
    /\ sortAt = -1
    /\ given = <<>>
    /\ blast = <<>>

MatIdle ==
    /\ file = <<>>
    /\ pos = <<>>
    /\ lock = <<>>
    /\ wpc = <<>>
    /\ wblk = <<>>
    /\ wbuf = <<>>
    /\ wread = <<>>
    /\ wres = <<>>
    /\ werr = <<>>

IdxIdle ==
    /\ iref = <<>>
    /\ iholder = "None"
    /\ seekable = FALSE
    /\ ipc = "idle"
    /\ ievents = <<>>
    /\ source = <<>>
    /\ srcPos = 0
    /\ srcEof = FALSE
    /\ replay = <<>>
    /\ ires = <<>>
    /\ ispos = 0
    /\ iback = <<>>

BlkIdle == seen = <<>>

CatIdle ==
    /\ csrcs = <<>>
    /\ citer = <<>>
    /\ citem = <<>>
    /\ cout = <<>>
    /\ clast = <<>>
    /\ cerr = FALSE

DecodeNext == BlockLinesNext /\ UNCHANGED <<sortVars, matVars, idxVars, blkVars, catVars>>

DecodeStart ==
    /\ BlkIdle
    /\ CatIdle
    /\ SortIdle
    /\ MatIdle
    /\ IdxIdle
    /\ DecodeInit

SpecDecode == DecodeStart /\ [][DecodeNext]_vars

\* --------------------------------------------------------------- SpecSort
\* (Timestamp, Timestamp) compared as a tuple: the minimum first, then the
\* maximum
KeyLess(a, b) == a[1] < b[1] \/ (a[1] = b[1] /\ a[2] < b[2])

\* |&i| input.index.source().blocks[i].stat.ts_min_max
KeyOf(bs, i) == At(bs, i)

\* faulty variant: an element is put before the elements of equal key
InsertBeforeEqual(bs, sorted, i) ==
    LET before == {j \in 1..Len(sorted) : KeyLess(KeyOf(bs, sorted[j]), KeyOf(bs, i))}
        at     == Cardinality(before)
    IN  SubSeq(sorted, 1, at) \o <<i>> \o SubSeq(sorted, at + 1, Len(sorted))

\* one step of the stable sort: i goes after every element whose key is not
\* greater than its own
InsertByKey(bs, sorted, i) ==
    LET before == {j \in 1..Len(sorted) : ~KeyLess(KeyOf(bs, i), KeyOf(bs, sorted[j]))}
        at     == Cardinality(before)
    IN  SubSeq(sorted, 1, at) \o <<i>> \o SubSeq(sorted, at + 1, Len(sorted))

\* indexes.sort_by_key(..): slice::sort_by_key is a stable sort
RECURSIVE SortByKey(_, _)
SortByKey(bs, is) ==
    IF is = <<>> THEN <<>>
    ELSE InsertByKey(bs, SortByKey(bs, SubSeq(is, 1, Len(is) - 1)), is[Len(is)])

TsPairs == {<<a, b>> \in (0..MaxTs) \X (0..MaxTs) : a <= b}

\* the sequences that hold each of 0 .. n-1 once
IndexOrders(n) == {[i \in 1..n |-> p[i] - 1] : p \in Orders(n)}

\* Blocks::new over an index: into_blocks hands it 0..n, any other caller
\* the indexes in the order of its choice
SortInit ==
    /\ blocks \in UNION {[1..n -> TsPairs] : n \in 0..MaxBlocks}
    /\ indexes \in IndexOrders(Len(blocks))
    /\ given = indexes
    /\ yielded = <<>>
    /\ sortIn = <<>>
    /\ sortAt = -1
    /\ blast = <<>>

\* count and sorted take the sequence by value: no call follows count
Consumed == blast # <<>> /\ blast.op = "count"

\* Blocks::next
BlocksNext ==
    /\ ~Consumed
    /\ indexes # <<>>
    /\ yielded' = Append(yielded, Head(indexes))
    /\ indexes' = Tail(indexes)
    /\ blast' = [op |-> "next", n |-> 0, had |-> Len(indexes), got |-> Head(indexes)]
    /\ UNCHANGED <<blocks, sortIn, sortAt, given>>

\* faulty variant: one handle too few is skipped
NthOffByOne(is, n) == At(is, n - 1)

\* self.indexes.nth(n): the element n places after the next one
Nth(is, n) == At(is, n)

\* Blocks::nth(n): n handles are skipped, the next one is yielded; n runs
\* up to the number of handles left, where nothing is yielded
BlocksNth ==
    \E n \in 1..Len(indexes) :
        /\ ~Consumed
        /\ indexes # <<>>
        /\ IF n < Len(indexes)
           THEN /\ yielded' = Append(yielded, Nth(indexes, n))
                /\ indexes' = SubSeq(indexes, n + 2, Len(indexes))
                /\ blast' = [op |-> "nth", n |-> n, had |-> Len(indexes),
                              got |-> Nth(indexes, n)]
           ELSE /\ yielded' = yielded
                /\ indexes' = <<>>
                /\ blast' = [op |-> "nth", n |-> n, had |-> Len(indexes), got |-> -1]
        /\ UNCHANGED <<blocks, sortIn, sortAt, given>>

\* Blocks::count: the sequence is consumed, the handles left are counted
BlocksCount ==
    /\ ~Consumed
    /\ indexes' = <<>>
    /\ blast' = [op |-> "count", n |-> 0, had |-> Len(indexes), got |-> Len(indexes)]
    /\ UNCHANGED <<blocks, yielded, sortIn, sortAt, given>>

\* Blocks::sorted, called once on the sequence, at any point of it
BlocksSorted ==
    /\ ~Consumed
    /\ sortAt = -1
    /\ sortIn' = indexes
    /\ sortAt' = Len(yielded)
    /\ indexes' = SortByKey(blocks, indexes)
    /\ UNCHANGED <<blocks, yielded, given, blast>>

SortNext ==
    \/ BlocksNext /\ UNCHANGED <<decVars, matVars, idxVars, blkVars, catVars>>
    \/ BlocksNth /\ UNCHANGED <<decVars, matVars, idxVars, blkVars, catVars>>
    \/ BlocksCount /\ UNCHANGED <<decVars, matVars, idxVars, blkVars, catVars>>
    \/ BlocksSorted /\ UNCHANGED <<decVars, matVars, idxVars, blkVars, catVars>>

SortStart ==
    /\ BlkIdle
    /\ CatIdle
    /\ DecodeIdle
    /\ MatIdle
    /\ IdxIdle
    /\ SortInit

SpecSort == SortStart /\ [][SortNext]_vars

\* ---------------------------------------------------------------- SpecMat
Streams == {1, 2}

Workers == 1..MatWorkers

\* the index of each stream: two blocks of two bytes each; the second block
\* of stream 1 counts more lines than a usize holds
MatIndex ==
    [s \in Streams |->
        <<[offset |-> 0, size |-> 2, lines_valid |-> 1, lines_invalid |-> 1],
          [offset |-> 2, size |-> 2,
           lines_valid |-> IF s = 1 THEN MaxUsize ELSE 1, lines_invalid |-> 1]>>]

\* the reference of each stream's IndexedInput: a file, and standard input
\* indexed sequentially
StreamRef(s) ==
    IF s = 1 THEN [kind |-> "File", path |-> <<"a", ".", "l", "o", "g">>]
    ELSE [kind |-> "Stdin", path |-> <<>>]

\* InputReference::description: "<stdin>", or format!("file '{}'", ..)
Description(ref) ==
    IF ref.kind = "Stdin" THEN <<"<stdin>">>
    ELSE <<"file '">> \o ref.path \o <<"'">>

\* block.source_block()
SourceBlock(blk) == At(MatIndex[blk[1]], blk[2])

\* the byte at offset off of the file behind stream s: no two are equal
FileByte(s, off) == 16 * s + off

\* the file behind stream s when it holds n bytes
FileOf(s, n) == [i \in 1..n |-> FileByte(s, i - 1)]

\* the bytes the index describes
IndexedLen(s) ==
    LET last == MatIndex[s][Len(MatIndex[s])] IN last.offset + last.size

\* TryInto<usize>: the value fits
FitsUsize(x) == x <= MaxUsize

\* faulty variant: the Mutex taken whether or not it is held
LockFreeIgnored(l) == TRUE

\* Mutex::lock acquires only a free lock
LockFree(l) == l = 0

\* ReadFill::read_fill of crate::iox: reads until buf is full; n bytes are
\* taken from the stream at position p, fewer than asked for at the end of
\* the stream, which is the short read that fails
ReadFill(content, p, size) ==
    LET avail == IF Len(content) > p THEN Len(content) - p ELSE 0
        n     == IF size < avail THEN size ELSE avail
    IN  [n |-> n, data |-> SubSeq(content, p + 1, p + n), ok |-> n = size]

\* faulty variant: the result of read_fill not looked at
ReadFillUnchecked(r) == TRUE

\* stream.read_fill(&mut buf)?
ReadFillTry(r) == r.ok

\* The index is built while the file has IndexedLen bytes; the file may have
\* lost its last byte since.
MatInit ==
    /\ \E n \in [Streams -> 0..1] :
          file = [s \in Streams |-> FileOf(s, IndexedLen(s) - n[s])]
    /\ pos = [s \in Streams |-> 0]
    /\ lock = [s \in Streams |-> 0]
    /\ wpc = [w \in Workers |-> "idle"]
    /\ wblk = [w \in Workers |-> <<0, 0>>]
    /\ wbuf = [w \in Workers |-> <<>>]
    /\ wread = [w \in Workers |-> -1]
    /\ wres = [w \in Workers |-> "none"]
    /\ werr = [w \in Workers |-> <<>>]

\* faulty variant: the guard outlives the call
GuardLeaked(l, s) == l

\* the MutexGuard goes out of scope: the Mutex is free again
DropGuard(l, s) == [l EXCEPT ![s] = 0]

\* the message of Error::Io(e), #[error(transparent)] over the io::Error
\* the ? operator converts: the message of e, nothing added
IoMessage(e) == e

\* leaving BlockLines::new with an error: the guard, if held, is dropped
MatFail(w, s, err, held) ==
    /\ wpc' = [wpc EXCEPT ![w] = "err"]
    /\ wres' = [wres EXCEPT ![w] = err]
    /\ werr' = [werr EXCEPT ![w] = IF err = "Io" THEN IoMessage(<<"os error">>) ELSE <<>>]
    /\ wbuf' = [wbuf EXCEPT ![w] = <<>>]
    /\ lock' = IF held THEN DropGuard(lock, s) ELSE lock

\* Block::into_lines up to the lock: the buffer comes from the pool (with
\* whatever it held) or is new, and is resized to the block's size
MatBegin(w) ==
    \E s \in Streams, b \in 0..1, stale \in BOOLEAN :
        /\ wpc[w] = "idle"
        /\ wblk' = [wblk EXCEPT ![w] = <<s, b>>]
        /\ wread' = [wread EXCEPT ![w] = -1]
        /\ LET size == SourceBlock(<<s, b>>).size
           IN  IF FitsUsize(size)
               THEN /\ wbuf' = [wbuf EXCEPT ![w] =
                                   [i \in 1..size |-> IF stale /\ i = 1 THEN 255 ELSE 0]]
                    /\ wpc' = [wpc EXCEPT ![w] = "lock"]
                    /\ wres' = [wres EXCEPT ![w] = "none"]
                    /\ werr' = werr
                    /\ lock' = lock
               ELSE MatFail(w, s, "TryFromIntError", FALSE)
        /\ UNCHANGED <<file, pos>>

\* block.input.stream.lock().unwrap()
MatLock(w) ==
    /\ wpc[w] = "lock"
    /\ LockFree(lock[wblk[w][1]])
    /\ lock' = [lock EXCEPT ![wblk[w][1]] = w]
    /\ wpc' = [wpc EXCEPT ![w] = "seek"]
    /\ UNCHANGED <<file, pos, wblk, wbuf, wread, wres, werr>>

\* stream.seek(SeekFrom::Start(source_block.offset))?
MatSeek(w) ==
    \E io \in {"ok", "err"} :
        /\ wpc[w] = "seek"
        /\ LET s == wblk[w][1]
           IN  IF io = "ok"
               THEN /\ pos' = [pos EXCEPT ![s] = SourceBlock(wblk[w]).offset]
                    /\ wpc' = [wpc EXCEPT ![w] = "read"]
                    /\ UNCHANGED <<lock, wbuf, wres, werr>>
               ELSE /\ MatFail(w, s, "Io", TRUE)
                    /\ pos' = pos
        /\ UNCHANGED <<file, wblk, wread>>

\* stream.read_fill(&mut buf)?
MatRead(w) ==
    \E io \in {"ok", "err"} :
        /\ wpc[w] = "read"
        /\ LET s == wblk[w][1]
               r == ReadFill(file[s], pos[s], Len(wbuf[w]))
           IN  IF io = "ok"
               THEN /\ pos' = [pos EXCEPT ![s] = pos[s] + r.n]
                    /\ wread' = [wread EXCEPT ![w] = r.n]
                    /\ IF ReadFillTry(r)
                       THEN /\ wbuf' = [wbuf EXCEPT ![w] =
                                           r.data \o SubSeq(wbuf[w], r.n + 1, Len(wbuf[w]))]
                            /\ wpc' = [wpc EXCEPT ![w] = "total"]
                            /\ UNCHANGED <<lock, wres, werr>>
                       ELSE MatFail(w, s, "Io", TRUE)
               ELSE /\ MatFail(w, s, "Io", TRUE)
                    /\ UNCHANGED <<pos, wread>>
        /\ UNCHANGED <<file, wblk>>

\* (lines_valid + lines_invalid).try_into()?, the end of the guard's scope
\* and Ok(Self { .. })
MatTotal(w) ==
    /\ wpc[w] = "total"
    /\ LET s  == wblk[w][1]
           sb == SourceBlock(wblk[w])
       IN  IF FitsUsize(sb.lines_valid + sb.lines_invalid)
           THEN /\ lock' = DropGuard(lock, s)
                /\ wpc' = [wpc EXCEPT ![w] = "done"]
                /\ wres' = [wres EXCEPT ![w] = "Ok"]
                /\ wbuf' = wbuf
                /\ werr' = werr
           ELSE MatFail(w, s, "TryFromIntError", TRUE)
    /\ UNCHANGED <<file, pos, wblk, wread>>

\* the worker is done with the result and takes its next Block handle
MatDrop(w) ==
    /\ wpc[w] \in {"done", "err"}
    /\ wpc' = [wpc EXCEPT ![w] = "idle"]
    /\ wbuf' = [wbuf EXCEPT ![w] = <<>>]
    /\ wres' = [wres EXCEPT ![w] = "none"]
    /\ werr' = [werr EXCEPT ![w] = <<>>]
    /\ wread' = [wread EXCEPT ![w] = -1]
    /\ wblk' = [wblk EXCEPT ![w] = <<0, 0>>]
    /\ UNCHANGED <<file, pos, lock>>

MatNext ==
    \E w \in Workers :
        \/ MatBegin(w) /\ UNCHANGED <<decVars, sortVars, idxVars, blkVars, catVars>>
        \/ MatLock(w) /\ UNCHANGED <<decVars, sortVars, idxVars, blkVars, catVars>>
        \/ MatSeek(w) /\ UNCHANGED <<decVars, sortVars, idxVars, blkVars, catVars>>
        \/ MatRead(w) /\ UNCHANGED <<decVars, sortVars, idxVars, blkVars, catVars>>
        \/ MatTotal(w) /\ UNCHANGED <<decVars, sortVars, idxVars, blkVars, catVars>>
        \/ MatDrop(w) /\ UNCHANGED <<decVars, sortVars, idxVars, blkVars, catVars>>

MatStart ==
    /\ BlkIdle
    /\ CatIdle
    /\ DecodeIdle
    /\ SortIdle
    /\ IdxIdle
    /\ MatInit

SpecMat == MatStart /\ [][MatNext]_vars

\* A worker inside BlockLines::new keeps running (its seek, its read and
\* its conversion are steps of its own thread), and the Mutex is handed to
\* every waiting worker in turn.
MatFairness ==
    \A w \in Workers :
        /\ SF_vars(MatLock(w) /\ UNCHANGED <<decVars, sortVars, idxVars, blkVars, catVars>>)
        /\ WF_vars(MatSeek(w) /\ UNCHANGED <<decVars, sortVars, idxVars, blkVars, catVars>>)
        /\ WF_vars(MatRead(w) /\ UNCHANGED <<decVars, sortVars, idxVars, blkVars, catVars>>)
        /\ WF_vars(MatTotal(w) /\ UNCHANGED <<decVars, sortVars, idxVars, blkVars, catVars>>)

SpecMatFair == MatStart /\ [][MatNext]_vars /\ MatFairness

\* -------------------------------------------------------------- SpecFrame
\* One thread's way through an IndexedInput: it iterates the Blocks of
\* stream 1's index, looks at Block handles, materializes one block and
\* decodes its lines.

\* Block::offset, Block::size, Block::lines_valid on a handle
BlockAccess ==
    \E s \in Streams, b \in 0..1 :
        seen' = [block |-> <<s, b>>,
                 offset |-> SourceBlock(<<s, b>>).offset,
                 size |-> SourceBlock(<<s, b>>).size,
                 lines_valid |-> SourceBlock(<<s, b>>).lines_valid]

\* Ok(Self { block, buf, total, current: 0, byte: 0, jump: 0 }): the
\* BlockLines the materialization of worker w hands to the decoder; the
\* blocks of MatIndex carry no chronology
NewBlockLines(w) ==
    LET sb == SourceBlock(wblk[w])
    IN  /\ buf' = wbuf[w]
        /\ chronology' = [bitmap |-> <<>>, offsets |-> <<>>, jumps |-> <<>>]
        /\ stat' = [lines_valid |-> sb.lines_valid, lines_invalid |-> sb.lines_invalid]
        /\ total' = sb.lines_valid + sb.lines_invalid
        /\ current' = 0
        /\ byte' = 0
        /\ jump' = 0
        /\ lines' = <<>>
        /\ ret' = "new"
        /\ extra' = 0
        /\ jlog' = <<>>
        /\ order' = <<>>

\* the last step of BlockLines::new, with the BlockLines it returns
FrameNew(w) ==
    /\ MatTotal(w)
    /\ IF FitsUsize(SourceBlock(wblk[w]).lines_valid + SourceBlock(wblk[w]).lines_invalid)
       THEN NewBlockLines(w)
       ELSE UNCHANGED decVars

\* faulty variant: every call of next seeks the stream to the line it scans
FrameDecodeSeeking ==
    /\ BlockLinesNext
    /\ pos' = [pos EXCEPT ![wblk[1][1]] = SourceBlock(wblk[1]).offset + byte]
    /\ UNCHANGED <<file, lock, wpc, wblk, wbuf, wread, wres, werr>>
    /\ UNCHANGED <<sortVars, idxVars, blkVars, catVars>>

\* BlockLines::next on the BlockLines delivered: it reads and writes the
\* fields of BlockLines alone
FrameDecode ==
    /\ BlockLinesNext
    /\ UNCHANGED <<sortVars, matVars, idxVars, blkVars, catVars>>

\* an index of as many blocks as stream 1 has, the later the block the
\* earlier its timestamps, under the sequence into_blocks builds
FrameInit ==
    /\ blocks = [i \in 1..Len(MatIndex[1]) |->
                    <<Len(MatIndex[1]) - i, Len(MatIndex[1]) - i>>]
    /\ indexes = [i \in 1..Len(MatIndex[1]) |-> i - 1]
    /\ given = indexes
    /\ yielded = <<>>
    /\ sortIn = <<>>
    /\ sortAt = -1
    /\ blast = <<>>
    /\ MatInit

FrameNext ==
    \/ BlocksNext /\ UNCHANGED <<decVars, matVars, idxVars, blkVars, catVars>>
    \/ BlocksNth /\ UNCHANGED <<decVars, matVars, idxVars, blkVars, catVars>>
    \/ BlocksCount /\ UNCHANGED <<decVars, matVars, idxVars, blkVars, catVars>>
    \/ BlocksSorted /\ UNCHANGED <<decVars, matVars, idxVars, blkVars, catVars>>
    \/ BlockAccess /\ UNCHANGED <<decVars, sortVars, matVars, idxVars, catVars>>
    \/ MatBegin(1) /\ UNCHANGED <<decVars, sortVars, idxVars, blkVars, catVars>>
    \/ MatLock(1) /\ UNCHANGED <<decVars, sortVars, idxVars, blkVars, catVars>>
    \/ MatSeek(1) /\ UNCHANGED <<decVars, sortVars, idxVars, blkVars, catVars>>
    \/ MatRead(1) /\ UNCHANGED <<decVars, sortVars, idxVars, blkVars, catVars>>
    \/ FrameNew(1) /\ UNCHANGED <<sortVars, idxVars, blkVars, catVars>>
    \/ FrameDecode

FrameStart ==
    /\ DecodeIdle
    /\ IdxIdle
    /\ BlkIdle
    /\ CatIdle
    /\ FrameInit

SpecFrame == FrameStart /\ [][FrameNext]_vars

\* -------------------------------------------------------------- SpecIndex
\* paths, as their characters
Paths == {<<"a", ".", "g", "z">>, <<"a", ".", "l", "o", "g">>, <<"a">>,
          <<".", "g", "z">>, <<"a", ".", "G", "Z">>,
          <<"a", ".", "g", "z", ".", "1">>}

\* Path::extension: what follows the last dot of the file name; none when
\* there is no dot, or only one that starts the name
Extension(path) ==
    LET dots == {i \in 2..Len(path) : path[i] = "."}
    IN  IF dots = {} THEN <<"none">>
        ELSE LET d == CHOOSE i \in dots : \A j \in dots : j <= i
             IN  <<"some", SubSeq(path, d + 1, Len(path))>>

\* faulty variant: the extension compared with the name of the format
IsGzip(path) == Extension(path) = <<"some", <<"g", "z", "i", "p">>>>

\* if let Some(Some("gz")) = path.extension().map(|x| x.to_str())
IsGz(path) == Extension(path) = <<"some", <<"g", "z">>>>

\* faulty variant: the error names the extension
UnsupportedFormatOfExtension(path) ==
    [err |-> "UnsupportedFormatForIndexing", path |-> path, format |-> "gz"]

\* UnsupportedFormatForIndexing { path: path.clone(), format: "gzip".into() }
UnsupportedFormat(path) ==
    [err |-> "UnsupportedFormatForIndexing", path |-> path, format |-> "gzip"]

\* faulty variant: the indexer handed the stream itself
IndexedReaderBare == "stream"

\* indexer.index_from_stream(&mut tee): what the indexer reads from
IndexedReader == "tee"

\* the index the indexer builds from the bytes it is given, by either entry
\* point: one source block per line, with its offset, size and line count
IndexOf(content) ==
    LET ranges == NaiveSplit(content)
    IN  [i \in 1..Len(ranges) |->
            [offset |-> ranges[i][1], size |-> ranges[i][2] - ranges[i][1], lines |-> 1]]

\* an InputHolder: InputReference::hold gives a file its open handle, and
\* InputHolder::new any of the two; the file's handle may not seek (a pipe
\* under a file name)
IdxInit ==
    /\ \E kind \in {"Stdin", "File"}, path \in Paths :
          iref = IF kind = "Stdin" THEN [kind |-> "Stdin", path |-> <<>>]
                 ELSE [kind |-> "File", path |-> path]
    /\ iholder \in (IF iref.kind = "Stdin" THEN {"None"} ELSE {"Some", "None"})
    /\ seekable \in (IF iref.kind = "Stdin" THEN {FALSE} ELSE BOOLEAN)
    /\ source \in UNION {[1..n -> Bytes] : n \in 0..MaxSrc}
    /\ ipc = "index"
    /\ ievents = <<>>
    /\ srcPos = 0
    /\ srcEof = FALSE
    /\ replay = <<>>
    /\ ires = <<>>
    /\ ispos = 0
    /\ iback = <<>>

IdxReturn(r) ==
    /\ ires' = r
    /\ ipc' = "done"

\* InputHolder::index: the match on the reference and the stream
HolderIndex ==
    /\ ipc = "index"
    /\ IF iref.kind = "Stdin"
       THEN /\ ipc' = "tee"
            /\ ievents' = Append(ievents, "Indexer::index_from_stream")
       ELSE /\ ipc' = IF iholder = "Some" THEN "open_stream" ELSE "open"
            /\ ievents' = ievents
    /\ UNCHANGED <<iref, iholder, seekable, source, srcPos, srcEof, replay, ires, ispos, iback>>

\* IndexedInput::open: InputReference::File(path).hold()?.index(indexer)
IndexedInputOpen ==
    \E io \in {"ok", "err"} :
        /\ ipc = "open"
        /\ ievents' = Append(ievents, "File::open")
        /\ IF io = "ok"
           THEN /\ iholder' = "Some"
                /\ ipc' = "open_stream"
                /\ ires' = ires
           ELSE /\ IdxReturn([err |-> "Io", what |-> "failed to open"])
                /\ iholder' = iholder
        /\ UNCHANGED <<iref, seekable, source, srcPos, srcEof, replay, ispos, iback>>

\* IndexedInput::open_stream up to the seek probe
OpenStream ==
    /\ ipc = "open_stream"
    /\ IF IsGz(iref.path)
       THEN IdxReturn(UnsupportedFormat(iref.path))
       ELSE /\ ipc' = "probe"
            /\ ires' = ires
    /\ UNCHANGED <<iref, iholder, seekable, ievents, source, srcPos, srcEof, replay, ispos, iback>>

\* faulty variant: the outcome of the probe is not looked at
ProbeFailsNever(sk) == FALSE

\* stream.seek(SeekFrom::Current(0)).is_err()
ProbeFails(sk) == ~sk

\* if stream.seek(SeekFrom::Current(0)).is_err() { return open_sequential }
SeekProbe ==
    /\ ipc = "probe"
    /\ IF ProbeFails(seekable)
       THEN /\ ipc' = "tee"
            /\ ievents' = ievents \o <<"seek", "Indexer::index_from_stream">>
       ELSE /\ ipc' = "direct"
            /\ ievents' = Append(ievents, "seek")
    /\ UNCHANGED <<iref, iholder, seekable, source, srcPos, srcEof, replay, ires, ispos, iback>>

\* let index = indexer.index(&path)?; Ok(Self::new(.., Mutex::new(stream), index))
OpenDirect ==
    \E r \in {"ok", "err"} :
        /\ ipc = "direct"
        /\ ievents' = Append(ievents, "Indexer::index")
        /\ IF r = "ok"
           THEN IdxReturn([ok |-> "IndexedInput", reference |-> iref, stream |-> "handle",
                            index |-> IndexOf(source)])
           ELSE IdxReturn([err |-> "Indexer"])
        /\ UNCHANGED <<iref, iholder, seekable, source, srcPos, srcEof, replay, ispos, iback>>

\* one read the indexer makes during index_from_stream: TeeReader::read
\* reads the stream and writes what it read to the ReplayBufCreator
TeeRead ==
    \E n \in 1..MaxChunk, io \in {"ok", "err"} :
        /\ ipc = "tee"
        /\ ~srcEof
        /\ ievents' = Append(ievents, "read")
        /\ IF io = "ok"
           THEN LET k     == IF n < Len(source) - srcPos THEN n ELSE Len(source) - srcPos
                    chunk == SubSeq(source, srcPos + 1, srcPos + k)
                IN  /\ srcPos' = srcPos + k
                    /\ srcEof' = (k = 0)
                    /\ replay' = IF IndexedReader = "tee" THEN replay \o chunk ELSE replay
                    /\ UNCHANGED <<ipc, ires>>
           ELSE /\ IdxReturn([err |-> "Io", what |-> "read"])
                /\ UNCHANGED <<srcPos, srcEof, replay>>
        /\ UNCHANGED <<iref, iholder, seekable, source, ispos, iback>>

\* index_from_stream returns: the index once the stream has ended, or an
\* error of the indexer at any point
StreamIndexed ==
    \E r \in {"ok", "err"} :
        /\ ipc = "tee"
        /\ IF r = "ok"
           THEN /\ srcEof
                /\ ipc' = "result"
                /\ ires' = ires
           ELSE IdxReturn([err |-> "Indexer"])
        /\ UNCHANGED <<iref, iholder, seekable, ievents, source, srcPos, srcEof, replay, ispos, iback>>

\* let buf = tee.into_writer().result()?;
\* Ok(IndexedInput::new(reference, Mutex::new(ReplayBufReader::new(buf)), index))
SequentialResult ==
    \E r \in {"ok", "err"} :
        /\ ipc = "result"
        /\ IF r = "ok"
           THEN IdxReturn([ok |-> "IndexedInput", reference |-> iref, stream |-> "replay",
                            index |-> IndexOf(SubSeq(source, 1, srcPos))])
           ELSE IdxReturn([err |-> "Io", what |-> "replay"])
        /\ UNCHANGED <<iref, iholder, seekable, ievents, source, srcPos, srcEof, replay, ispos, iback>>

\* the bytes behind IndexedInput.stream
IndexedBytes == IF ires.stream = "replay" THEN replay ELSE source

\* a block read on the IndexedInput: seek to off, read n bytes. With the
\* direct strategy the stream is the file's handle, and ispos its position
ReadBack ==
    \E off \in 0..MaxSrc, n \in 1..MaxChunk :
        /\ ipc = "done"
        /\ "ok" \in DOMAIN ires
        /\ Cardinality({i \in 1..Len(ievents) : ievents[i] \in {"replay read", "handle read"}})
              < MaxReadBack
        /\ LET r == ReadFill(IndexedBytes, off, n)
           IN  /\ ispos' = off + r.n
               /\ iback' = <<off, r.data>>
        /\ ievents' = Append(ievents, IF ires.stream = "replay" THEN "replay read"
                                      ELSE "handle read")
        /\ UNCHANGED <<iref, iholder, seekable, ipc, source, srcPos, srcEof, replay, ires>>

IdxNext ==
    \/ HolderIndex /\ UNCHANGED <<decVars, sortVars, matVars, blkVars, catVars>>
    \/ IndexedInputOpen /\ UNCHANGED <<decVars, sortVars, matVars, blkVars, catVars>>
    \/ OpenStream /\ UNCHANGED <<decVars, sortVars, matVars, blkVars, catVars>>
    \/ SeekProbe /\ UNCHANGED <<decVars, sortVars, matVars, blkVars, catVars>>
    \/ OpenDirect /\ UNCHANGED <<decVars, sortVars, matVars, blkVars, catVars>>
    \/ TeeRead /\ UNCHANGED <<decVars, sortVars, matVars, blkVars, catVars>>
    \/ StreamIndexed /\ UNCHANGED <<decVars, sortVars, matVars, blkVars, catVars>>
    \/ SequentialResult /\ UNCHANGED <<decVars, sortVars, matVars, blkVars, catVars>>
    \/ ReadBack /\ UNCHANGED <<decVars, sortVars, matVars, blkVars, catVars>>

IdxStart ==
    /\ BlkIdle
    /\ CatIdle
    /\ DecodeIdle
    /\ SortIdle
    /\ MatIdle
    /\ IdxInit

SpecIndex == IdxStart /\ [][IdxNext]_vars

\* ------------------------------------------------------------- SpecConcat
\* the reference of the i-th item: standard input first, files after it
ItemRef(i) ==
    IF i = 1 THEN [kind |-> "Stdin", path |-> <<>>]
    ELSE [kind |-> "File", path |-> <<"f", i>>]

\* InputReference::hold failing: format!("failed to open {}: {}", description, e)
OpenError(ref) == <<"failed to open ">> \o Description(ref) \o <<": ", "os error">>

\* format!("failed to read {}: {}", input.reference.description(), e)
ReadError(ref) == <<"failed to read ">> \o Description(ref) \o <<": ", "os error">>

\* what the iterator yields in place i: an Input over n bytes, or the error
\* of an open that failed
ItemsAt(i) ==
    {[kind |-> "Input", ref |-> ItemRef(i), data |-> FileOf(i, n)] : n \in 0..MaxData}
        \cup {[kind |-> "Err", ref |-> ItemRef(i), data |-> <<>>]}

\* input.stream.read(buf): as many bytes as the buffer takes and the source
\* has left, at most k of them in one call; 0 at the end of the source and
\* for an empty buffer
StreamRead(item, n, k) ==
    LET rest == Len(item.data) - item.at
        a    == IF n < rest THEN n ELSE rest
    IN  IF a < k THEN a ELSE k

\* faulty variant: whatever the source returns is returned
DeliveredAlways(n) == TRUE

\* if n != 0 { return Ok(n); }
Delivered(n) == n # 0

\* the loop of ConcatReader::read over a buffer of n bytes; the underlying
\* reads succeed until fa of them have been made (never fail when fa < 0)
RECURSIVE ConcatLoop(_, _, _, _, _)
ConcatLoop(iter, item, n, k, fa) ==
    IF item = <<>>
    THEN IF iter = <<>>
         THEN [iter |-> iter, item |-> item, ret |-> [ok |-> 0], data |-> <<>>]
         ELSE IF Head(iter).kind = "Err"
              THEN [iter |-> Tail(iter), item |-> item,
                    ret |-> [err |-> OpenError(Head(iter).ref)], data |-> <<>>]
              ELSE ConcatLoop(Tail(iter),
                              [ref |-> Head(iter).ref, data |-> Head(iter).data, at |-> 0],
                              n, k, fa)
    ELSE IF fa = 0
         THEN [iter |-> iter, item |-> item,
               ret |-> [err |-> ReadError(item.ref)], data |-> <<>>]
         ELSE LET got == StreamRead(item, n, k)
              IN  IF Delivered(got)
                  THEN [iter |-> iter, item |-> [item EXCEPT !.at = @ + got],
                        ret |-> [ok |-> got],
                        data |-> SubSeq(item.data, item.at + 1, item.at + got)]
                  ELSE ConcatLoop(iter, <<>>, n, k, fa - 1)

\* ConcatReader::new over an iterator of up to MaxInputs items
ConcatInit ==
    /\ \E m \in 0..MaxInputs :
          csrcs \in {q \in [1..m -> UNION {ItemsAt(i) : i \in 1..MaxInputs}] :
                        \A i \in 1..m : q[i] \in ItemsAt(i)}
    /\ citer = csrcs
    /\ citem = <<>>
    /\ cout = <<>>
    /\ clast = <<>>
    /\ cerr = FALSE

\* ConcatReader::read(buf), buf of n bytes
ConcatRead ==
    \E n \in 0..MaxChunk, k \in 1..MaxChunk, fa \in -1..MaxInputs :
        LET r == ConcatLoop(citer, citem, n, k, fa)
        IN  /\ citer' = r.iter
            /\ citem' = r.item
            /\ cout' = cout \o r.data
            /\ clast' = [n |-> n, ret |-> r.ret, entered |-> citem,
                         took |-> Len(citer) - Len(r.iter)]
            /\ cerr' = (cerr \/ "err" \in DOMAIN r.ret)
            /\ csrcs' = csrcs

ConcatNext == ConcatRead /\ UNCHANGED <<decVars, sortVars, matVars, idxVars, blkVars>>

ConcatStart ==
    /\ DecodeIdle
    /\ SortIdle
    /\ MatIdle
    /\ IdxIdle
    /\ BlkIdle
    /\ ConcatInit

SpecConcat == ConcatStart /\ [][ConcatNext]_vars

\* ------------------------------------------------------ claims, SpecDecode
Done == Exhausted(current, total)

\* how many produced lines cover byte offset pos of the buffer
Covering(off) == Cardinality({i \in 1..Len(lines) : lines[i][1] <= off /\ off < lines[i][2]})

\* the bytes of the produced lines, concatenated in the order produced
RECURSIVE ConcatLines(_, _)
ConcatLines(b, rs) ==
    IF rs = <<>> THEN <<>>
    ELSE SubSeq(b, Head(rs)[1] + 1, Head(rs)[2]) \o ConcatLines(b, Tail(rs))

AllZero(bitmap) == \A w \in 1..Len(bitmap) : bitmap[w] = 0

\* C1: the decoder produces exactly lines_valid + lines_invalid lines: never
\* more, it reports the end only after that many, and every call made after
\* the end yields no item and no further line.
C1_ExactCount ==
    /\ Len(lines) <= stat.lines_valid + stat.lines_invalid
    /\ (ret = "None" => Len(lines) = stat.lines_valid + stat.lines_invalid)
    /\ (extra > 0 => ret = "None")
    /\ Len(lines) = current

C1_Witness ==
    /\ extra >= 2
    /\ Len(lines) >= 3
    /\ stat.lines_invalid > 0
    /\ stat.lines_valid > 0
    /\ Len(chronology.bitmap) > 1

\* C2: the lines produced are the buffer's logical lines in the order of the
\* chronological table; no byte is covered twice, and once the decoder is
\* exhausted every byte is covered exactly once, so the concatenated lines
\* are the buffer's lines rearranged.
C2_RoundTrip ==
    /\ ret # "panic"
    /\ \A i \in 1..Len(lines) : lines[i] = NaiveSplit(buf)[order[i]]
    /\ \A off \in 0..(Len(buf) - 1) : Covering(off) <= 1
    /\ Done => /\ \A off \in 0..(Len(buf) - 1) : Covering(off) = 1
               /\ Len(ConcatLines(buf, lines)) = Len(buf)
               /\ ConcatLines(buf, lines)
                    = ConcatLines(buf, [i \in 1..Len(order) |-> NaiveSplit(buf)[order[i]]])

C2_Witness ==
    /\ Done
    /\ Len(lines) >= 4
    /\ order # Identity(Len(order))
    /\ Len(chronology.jumps) >= 2
    /\ \E i \in 1..Len(buf) : buf[i] # NL

SequentialOffsets ==
    \A w \in 1..Len(chronology.offsets) :
        chronology.offsets[w].bytes
            = (IF w = 1 THEN 0 ELSE NaiveSplit(buf)[(w - 1) * WordBits][2])

C4_JumpsInOrder ==
    /\ \A i \in 1..Len(jlog) :
          IF jlog[i].bit
          THEN /\ jlog[i].read = jlog[i].enter
               /\ jlog[i].read < Len(chronology.jumps)
               /\ jlog[i].after = jlog[i].enter + 1
          ELSE /\ jlog[i].read = -1
               /\ jlog[i].after = jlog[i].enter
    /\ \A i, j \in 1..Len(jlog) :
          (i < j /\ jlog[i].bit /\ jlog[j].bit) => jlog[i].read < jlog[j].read
    /\ jump = Cardinality({i \in 1..Len(jlog) : jlog[i].bit})

C4_Witness ==
    /\ Done
    /\ Cardinality({i \in 1..Len(jlog) : jlog[i].bit}) >= 2
    /\ \E i \in 1..Len(jlog) : ~jlog[i].bit /\ jlog[i].reset /\ jlog[i].enter > 0

\* the end of the line produced before line i, the initial scan offset for
\* the first
PreviousEnd(i) == IF i = 1 THEN 0 ELSE lines[i - 1][2]

\* C16: with a non-empty bitmap, a line whose index is a multiple of the
\* window size takes the scan offset and the jump cursor from its window's
\* offsets entry before its bit is examined, whatever they were on entry;
\* at every other line index, and with an empty bitmap, they are left as
\* the previous line left them.
C16_WindowReset ==
    \A i \in 1..Len(jlog) :
        LET e       == jlog[i]
            n       == e.line \div WordBits
            atStart == Len(chronology.bitmap) # 0 /\ e.line % WordBits = 0
        IN  /\ e.line = i - 1
            /\ e.reset = atStart
            /\ e.benter = PreviousEnd(i)
            /\ IF atStart
               THEN /\ e.bbefore = At(chronology.offsets, n).bytes
                    /\ e.before = At(chronology.offsets, n).jumps
               ELSE /\ e.bbefore = e.benter
                    /\ e.before = e.enter
            /\ IF e.bit
               THEN /\ e.read = e.before
                    /\ lines[i][1] = At(chronology.jumps, e.before)
               ELSE lines[i][1] = e.bbefore

C16_Witness ==
    /\ Done
    /\ Len(chronology.bitmap) >= 2
    /\ \E i \in 1..Len(jlog) :
          /\ jlog[i].reset
          /\ jlog[i].line >= WordBits
          /\ jlog[i].bbefore # jlog[i].benter
    /\ \E i \in 1..Len(jlog) : ~jlog[i].reset /\ jlog[i].bit
    /\ \E i \in 1..Len(jlog) : ~jlog[i].reset /\ ~jlog[i].bit

\* the range ends after the first newline at or after its start, or at the
\* buffer's end when there is none; a newline in it is its last byte
EndsAfterNewline(r) ==
    /\ 0 <= r[1] /\ r[1] <= r[2] /\ r[2] <= Len(buf)
    /\ \A k \in (r[1] + 1)..r[2] : buf[k] = NL => k = r[2]
    /\ r[2] < Len(buf) => (r[2] > r[1] /\ buf[r[2]] = NL)
    /\ r[2] = r[1] => r[1] = Len(buf)

\* C17 as stated: a line whose bit is clear starts at the previous line's
\* end, a line whose bit is set at the jump entry it consumed; each line
\* ends after the next newline or at the buffer's end.
C17_StartsAtPreviousEnd ==
    \A i \in 1..Len(lines) :
        /\ lines[i][1] = (IF jlog[i].bit THEN At(chronology.jumps, jlog[i].read)
                          ELSE PreviousEnd(i))
        /\ EndsAfterNewline(lines[i])

\* C17 (amended): a line whose bit is set starts at the jump entry it
\* consumed; a line whose bit is clear starts at its window's offsets entry
\* when it is the first line of a window of a non-empty bitmap, and at the
\* previous line's end otherwise; each line ends after the next newline or
\* at the buffer's end, 0 <= start <= end <= the buffer's length, and a
\* newline in the line is its last byte.
C17_StartsAtScanOffset ==
    \A i \in 1..Len(lines) :
        /\ lines[i][1]
             = (IF jlog[i].bit THEN At(chronology.jumps, jlog[i].read)
                ELSE IF jlog[i].reset
                     THEN At(chronology.offsets, jlog[i].line \div WordBits).bytes
                     ELSE PreviousEnd(i))
        /\ EndsAfterNewline(lines[i])

C17_Witness ==
    /\ Done
    /\ Len(lines) >= 3
    /\ \E i \in 1..Len(lines) : jlog[i].bit
    /\ \E i \in 1..Len(lines) :
          ~jlog[i].bit /\ jlog[i].reset /\ lines[i][1] # PreviousEnd(i)
    /\ \E i \in 2..Len(lines) : ~jlog[i].bit /\ ~jlog[i].reset
    /\ \E i \in 1..Len(lines) : lines[i][2] = Len(buf) /\ buf[Len(buf)] # NL

\* -------------------------------------------------------- claims, SpecSort
\* the position of block index i in sequence s
PosIn(s, i) == CHOOSE j \in 1..Len(s) : s[j] = i

\* the blocks that follow a call of sorted: those yielded since, then those
\* still to yield
AfterSort == SubSeq(yielded, sortAt + 1, Len(yielded)) \o indexes

\* C5: after sorted, a block whose ts_min_max is smaller (the minimum, then
\* the maximum) comes before one whose ts_min_max is greater, and blocks of
\* equal ts_min_max keep the relative order they had before the call; the
\* handles yielded follow that order.
C5_SortedStable ==
    sortAt >= 0 =>
        /\ LET s == SortByKey(blocks, sortIn)
           IN  \A i, j \in 1..Len(sortIn) :
                   LET a == sortIn[i]
                       b == sortIn[j]
                   IN  /\ KeyLess(At(blocks, a), At(blocks, b)) => PosIn(s, a) < PosIn(s, b)
                       /\ (i < j /\ At(blocks, a) = At(blocks, b))
                             => PosIn(s, a) < PosIn(s, b)
        /\ \A i, j \in 1..Len(AfterSort) :
              LET a == AfterSort[i]
                  b == AfterSort[j]
              IN  /\ KeyLess(At(blocks, a), At(blocks, b)) => i < j
                  /\ (At(blocks, a) = At(blocks, b) /\ PosIn(sortIn, a) < PosIn(sortIn, b))
                        => i < j
        /\ \A a \in 0..(Len(blocks) - 1) :
              (\E i \in 1..Len(sortIn) : sortIn[i] = a)
                  => Cardinality({i \in 1..Len(AfterSort) : AfterSort[i] = a}) <= 1

C5_Witness ==
    /\ sortAt >= 0
    /\ Len(sortIn) = 3
    /\ Len(yielded) - sortAt >= 2
    /\ \E i, j \in 1..3 : /\ i < j
                          /\ At(blocks, sortIn[i]) = At(blocks, sortIn[j])
                          /\ sortIn[i] > sortIn[j]
    /\ \E i, j \in 1..3 : /\ i < j
                          /\ At(blocks, sortIn[j])[1] = At(blocks, sortIn[i])[1]
                          /\ At(blocks, sortIn[j])[2] < At(blocks, sortIn[i])[2]

\* the sequence is the one into_blocks builds and sorted was not called
Default == given = [i \in 1..Len(blocks) |-> i - 1] /\ sortAt = -1

\* the handles the last call took from the sequence: the one yielded and
\* those skipped
TakenLast ==
    IF blast.op = "next" THEN 1
    ELSE IF blast.op = "nth"
         THEN (IF blast.n < blast.had THEN blast.n + 1 ELSE blast.had)
         ELSE blast.had

\* the handles taken from the sequence before the last call, and so far
TakenBefore == IF blast = <<>> THEN 0 ELSE Len(blocks) - blast.had

TakenSoFar == IF blast = <<>> THEN 0 ELSE TakenBefore + TakenLast

\* C15: the sequence into_blocks builds yields one handle per index entry,
\* in index order 0 .. n-1: next yields the first index not yet taken,
\* nth(k) the one k places later (nothing when fewer are left) and no
\* handle out of order, count the number of handles not yet taken.
C15_IndexOrder ==
    Default =>
        /\ blast # <<>> =>
              /\ blast.op = "next" => (blast.got = TakenBefore
                                         /\ yielded[Len(yielded)] = blast.got)
              /\ blast.op = "nth" =>
                    /\ blast.got = (IF TakenBefore + blast.n < Len(blocks)
                                    THEN TakenBefore + blast.n ELSE -1)
                    /\ blast.got >= 0 => yielded[Len(yielded)] = blast.got
              /\ blast.op = "count" => blast.got = Len(blocks) - TakenBefore
        /\ \A i, j \in 1..Len(yielded) : i < j => yielded[i] < yielded[j]
        /\ \A i \in 1..Len(yielded) : i - 1 <= yielded[i] /\ yielded[i] < TakenSoFar
        /\ ~Consumed =>
              indexes = [i \in 1..(Len(blocks) - TakenSoFar) |-> TakenSoFar + i - 1]
        /\ Len(yielded) = TakenSoFar => yielded = [i \in 1..Len(yielded) |-> i - 1]

C15_Witness ==
    /\ Default
    /\ Len(blocks) = 3
    /\ yielded = <<0, 2>>
    /\ blast = [op |-> "count", n |-> 0, had |-> 0, got |-> 0]

\* --------------------------------------------------------- claims, SpecMat
\* the worker holds the guard of its stream
InFlight(w) == wpc[w] \in {"seek", "read", "total"}

\* the bytes of the block's range in the file
BlockBytes(blk) ==
    SubSeq(file[blk[1]], SourceBlock(blk).offset + 1,
           SourceBlock(blk).offset + SourceBlock(blk).size)

\* C6: on one stream at most one block read is in flight; between a
\* worker's seek and its read the stream stays where the seek put it; a
\* materialized buffer holds the bytes of its own block's range; and a
\* worker waiting for a stream no worker holds can take it, whatever is
\* held on the other streams.
C6_OneReadPerStream ==
    /\ \A s \in Streams :
          /\ Cardinality({w \in Workers : InFlight(w) /\ wblk[w][1] = s}) <= 1
          /\ lock[s] # 0 <=> \E w \in Workers : InFlight(w) /\ wblk[w][1] = s
    /\ \A w \in Workers :
          /\ InFlight(w) => lock[wblk[w][1]] = w
          /\ wpc[w] = "read" => pos[wblk[w][1]] = SourceBlock(wblk[w]).offset
          /\ wpc[w] \in {"total", "done"} => wbuf[w] = BlockBytes(wblk[w])
          /\ (wpc[w] = "lock" /\ \A v \in Workers : InFlight(v) => wblk[v][1] # wblk[w][1])
                => ENABLED MatLock(w)

C6_Witness ==
    \E w, v \in Workers :
        /\ wpc[w] = "lock"
        /\ wpc[v] = "total"
        /\ wblk[w][1] = wblk[v][1]
        /\ wblk[w][2] # wblk[v][2]
        /\ pos[wblk[v][1]] = IndexedLen(wblk[v][1])

Names(msg, d) ==
    \E i \in 1..(Len(msg) - Len(d) + 1) : SubSeq(msg, i, i + Len(d) - 1) = d

\* C14: an I/O error a materialization returns (its seek failed, or its
\* read) carries the display identity of the block's source in its message.
C14_MatErrorsNameSource ==
    \A w \in Workers :
        wres[w] = "Io" => Names(werr[w], Description(StreamRef(wblk[w][1])))

\* C20: a worker that is not inside a materialization holds no lock,
\* whether its last one succeeded or failed on the seek, the read or a
\* conversion, and a held lock belongs to a worker past its acquisition;
\* under fair scheduling every worker that waits for a stream's lock goes on
\* to finish with a result, after failed materializations on that stream
\* as after successful ones.
C20_LockReleased ==
    /\ [](\A s \in Streams :
             /\ lock[s] \in Workers => (InFlight(lock[s]) /\ wblk[lock[s]][1] = s)
             /\ \A w \in Workers : wpc[w] \in {"idle", "lock", "done", "err"} => lock[s] # w)
    /\ \A w \in Workers : (wpc[w] = "lock") ~> (wpc[w] \in {"done", "err"})

C20_Witness ==
    \E w, v \in Workers :
        /\ wpc[w] = "err"
        /\ wres[w] = "Io"
        /\ wread[w] = -1
        /\ wpc[v] = "seek"
        /\ wblk[v][1] = wblk[w][1]
        /\ lock[wblk[v][1]] = v

\* ------------------------------------------------------- claims, SpecIndex
\* the request is for a file whose name ends in ".gz" after a stem
GzFile ==
    /\ iref.kind = "File"
    /\ Len(iref.path) > 3
    /\ SubSeq(iref.path, Len(iref.path) - 2, Len(iref.path)) = <<".", "g", "z">>

Rejected ==
    ires = [err |-> "UnsupportedFormatForIndexing", path |-> iref.path, format |-> "gzip"]

\* C8 as stated: indexing a file whose path has the gzip extension ends
\* with UnsupportedFormatForIndexing, carrying that path and "gzip".
C8_GzAlwaysRejected == (ipc = "done" /\ GzFile) => Rejected

\* C8 (amended): indexing a file whose path has the gzip extension produces
\* no IndexedInput; with the file's stream open (handed over in the holder,
\* or opened by IndexedInput::open) it ends with
\* UnsupportedFormatForIndexing carrying that path and "gzip", seekable or
\* not, and when the holder has no stream and the file cannot be opened it
\* ends with the I/O error of the open.
C8_GzRejectedOnceOpen ==
    (ipc = "done" /\ GzFile) =>
        /\ "ok" \notin DOMAIN ires
        /\ iholder = "Some" => Rejected
        /\ iholder = "None" => /\ ires.err = "Io"
                               /\ ires.what = "failed to open"
                               /\ ievents = <<"File::open">>

C8_Witness ==
    /\ ipc = "done"
    /\ GzFile
    /\ Rejected
    /\ seekable
    /\ ievents = <<"File::open">>

\* C9: on an indexing request for a gzip-named file neither entry point of
\* the indexer is called, the stream is not probed with a seek and nothing
\* is read from it: not before the rejection, and not after.
C9_GzBeforeIndexer ==
    GzFile => \A i \in 1..Len(ievents) :
                  ievents[i] \notin {"seek", "read", "Indexer::index",
                                     "Indexer::index_from_stream",
                                     "handle read", "replay read"}

C9_Witness ==
    /\ ipc = "done"
    /\ GzFile
    /\ Rejected
    /\ ~seekable
    /\ ievents = <<>>

\* the sequential strategy was taken
Sequential == \E i \in 1..Len(ievents) : ievents[i] = "Indexer::index_from_stream"

\* C10: under the sequential strategy the replay buffer holds the bytes the
\* source has delivered, in order; once the IndexedInput is built its stream
\* is that buffer, every later block read is served from it, and no read of
\* the source follows.
C10_SinglePass ==
    Sequential =>
        /\ replay = SubSeq(source, 1, srcPos)
        /\ (ipc = "done" /\ "ok" \in DOMAIN ires) =>
              /\ ires.stream = "replay"
              /\ srcEof
              /\ IndexedBytes = SubSeq(source, 1, srcPos)
              /\ iback # <<>> =>
                    iback[2] = SubSeq(source, iback[1] + 1, iback[1] + Len(iback[2]))
        /\ \A i, j \in 1..Len(ievents) :
              (i < j /\ ievents[i] = "replay read") => ievents[j] # "read"
        /\ \A i \in 1..Len(ievents) : ievents[i] # "handle read"

C10_Witness ==
    /\ Sequential
    /\ ipc = "done"
    /\ "ok" \in DOMAIN ires
    /\ iref.kind = "File"
    /\ Len(replay) = 3
    /\ iback # <<>>
    /\ Len(iback[2]) = 2
    /\ iback[1] = 1
    /\ Cardinality({i \in 1..Len(ievents) : ievents[i] = "read"}) >= 3

\* how often call c was made
Calls(c) == Cardinality({i \in 1..Len(ievents) : ievents[i] = c})

\* the direct strategy was taken: open_stream is past its seek probe and
\* calls, or has called, Indexer::index
Direct == ipc = "direct" \/ Calls("Indexer::index") > 0

\* the call of index is past the choice of the strategy
Chosen == ipc \in {"direct", "tee", "result"}
          \/ (ipc = "done" /\ Calls("Indexer::index") + Calls("Indexer::index_from_stream") > 0)

\* C18: index takes at most one strategy per input, and exactly one once
\* the choice is made. Standard input: the sequential one, with no seek and
\* no open. A file that is not gzip-named and whose stream fails the seek
\* probe: the sequential one (index_from_stream called, index not). A file
\* that is not gzip-named and whose stream passes the probe: the direct one
\* (index called, index_from_stream not), and the IndexedInput built reads
\* its blocks from the handle already open, which is opened at most once.
C18_OneStrategy ==
    /\ Calls("Indexer::index") + Calls("Indexer::index_from_stream") <= 1
    /\ Chosen => (Direct /\ Calls("Indexer::index_from_stream") = 0)
                  \/ (~Direct /\ Calls("Indexer::index_from_stream") = 1)
    /\ ipc = "direct" => Calls("Indexer::index") = 0
    /\ (ipc = "done" /\ "ok" \in DOMAIN ires) => Chosen
    /\ iref.kind = "Stdin" =>
          /\ ~Direct
          /\ Calls("seek") = 0
          /\ Calls("File::open") = 0
          /\ ipc # "index" => Calls("Indexer::index_from_stream") = 1
          /\ (ipc = "done" /\ "ok" \in DOMAIN ires) => ires.stream = "replay"
    /\ (iref.kind = "File" /\ Calls("seek") > 0) =>
          /\ ~GzFile
          /\ Calls("seek") = 1
          /\ Calls("File::open") <= 1
          /\ Chosen
          /\ IF seekable
             THEN /\ Direct
                  /\ Calls("Indexer::index_from_stream") = 0
                  /\ Calls("read") = 0
                  /\ ipc = "done" => Calls("Indexer::index") = 1
                  /\ (ipc = "done" /\ "ok" \in DOMAIN ires) => ires.stream = "handle"
             ELSE /\ Calls("Indexer::index_from_stream") = 1
                  /\ ~Direct
                  /\ (ipc = "done" /\ "ok" \in DOMAIN ires) => ires.stream = "replay"
    /\ (iref.kind = "File" /\ ~GzFile /\ ipc = "done"
          /\ ires # [err |-> "Io", what |-> "failed to open"]) => Chosen

C18_Witness ==
    /\ ipc = "done"
    /\ "ok" \in DOMAIN ires
    /\ iref = [kind |-> "File", path |-> <<"a", ".", "g", "z", ".", "1">>]
    /\ ~seekable
    /\ ires.stream = "replay"
    /\ ievents[1] = "File::open"
    /\ Calls("Indexer::index_from_stream") = 1
    /\ Calls("read") >= 2

\* what indexing yields: the blocks of the index and, for each block, the
\* bytes a materialization reads and the lines they decode to
View(index, bytes) ==
    [i \in 1..Len(index) |->
        LET r == ReadFill(bytes, index[i].offset, index[i].size)
        IN  [block |-> index[i], ok |-> r.ok, data |-> r.data, decoded |-> NaiveSplit(r.data)]]

\* what direct indexing of an on-disk file holding the content yields
DirectView(content) == View(IndexOf(content), content)

Accessed == seen' # seen

Iterated == blast' # blast \/ sortAt' # sortAt \/ indexes' # indexes

Decoded == Len(lines') > Len(lines) \/ extra' # extra \/ (ret' = "panic" /\ ret # "panic")

\* the step is one of BlockLines::new of the thread, from the wait for the
\* lock on
Materializing == wpc[1] \in {"lock", "seek", "read", "total"} /\ wpc'[1] # wpc[1]

\* C19: a call of a Block accessor, of next, nth, count or sorted on the
\* Blocks sequence, or of BlockLines::next leaves every stream's contents
\* and position as they are and takes no lock; they change in steps of
\* BlockLines::new alone; and a call of BlockLines::next changes neither
\* the index nor the materialized buffer.
C19_OnlyNewTouchesStream ==
    [][/\ (Accessed \/ Iterated \/ Decoded) => UNCHANGED <<file, pos, lock>>
       /\ <<file, pos, lock>>' # <<file, pos, lock>> => Materializing
       /\ Decoded => /\ UNCHANGED <<buf, chronology, stat, total, blocks, wbuf>>
                      /\ buf = wbuf[1]
                      /\ buf = BlockBytes(wblk[1])]_vars

C19_Witness ==
    /\ ret = "None"
    /\ Len(lines) = 2
    /\ buf = BlockBytes(wblk[1])
    /\ wblk[1] = <<2, 1>>
    /\ pos = <<0, 4>>
    /\ lock = <<0, 0>>
    /\ seen # <<>>
    /\ seen.block = wblk[1]
    /\ sortAt >= 0
    /\ yielded = <<1, 0>>

\* ------------------------------------------------------ claims, SpecConcat
\* the bytes of the sources q, one source after the other
RECURSIVE AllBytes(_)
AllBytes(q) == IF q = <<>> THEN <<>> ELSE Head(q).data \o AllBytes(Tail(q))

\* C12: as long as no call of read has returned an error, the bytes
\* delivered are the first bytes of the sources' concatenation, in order;
\* once read has returned Ok(0) they are all of it: no source is skipped,
\* no byte lost, repeated or out of order.
C12_Concatenation ==
    ~cerr =>
        /\ Len(cout) <= Len(AllBytes(csrcs))
        /\ cout = SubSeq(AllBytes(csrcs), 1, Len(cout))
        /\ (clast # <<>> /\ clast.ret = [ok |-> 0]) => cout = AllBytes(csrcs)

\* C13: read returns Ok(0) only when the iterator has yielded its last item
\* and that item is read to its end; a call that finds the current source
\* at its end while items remain goes on to the next item and returns what
\* it reads there (or the error it meets), not 0.
C13_EofOnlyAtEnd ==
    clast # <<>> =>
        /\ clast.ret = [ok |-> 0] => (citer = <<>> /\ citem = <<>>)
        /\ ("ok" \in DOMAIN clast.ret /\ clast.ret.ok > 0) =>
              /\ citem # <<>>
              /\ clast.ret.ok <= clast.n
              /\ citem.at >= clast.ret.ok
        /\ (citer # <<>> \/ citem # <<>>) => clast.ret # [ok |-> 0]

C13_Witness ==
    /\ clast # <<>>
    /\ clast.entered # <<>>
    /\ clast.entered.at = Len(clast.entered.data)
    /\ clast.took = 1
    /\ "ok" \in DOMAIN clast.ret
    /\ clast.ret.ok = 2
    /\ Len(cout) = 2 + Len(clast.entered.data)
    /\ Len(clast.entered.data) > 0

====
